---------------------------- MODULE Spec2Model ----------------------------
(***************************************************************************)
(* Move evaluation and classification pipeline of backend/main.py.        *)
(*                                                                         *)
(* Units.  The engine reports integer centipawns and main.py stores        *)
(* score_value / 100.0 (pawns).  Here an evaluation is held as the integer *)
(* number of hundredths of a pawn, so the stored value x/100.0 is the      *)
(* integer x and "100 pawns" is 10000.  The floating-point percentages are *)
(* decimal fixed-point integers: a win percentage in units of 1e-6         *)
(* percent (0 .. 10^8), a move accuracy in units of 1e-4 percent           *)
(* (0 .. 10^6), a game accuracy in units of 1e-2 percent (0 .. 10^4);      *)
(* each is the nearest unit to the value the code computes, and an         *)
(* accuracy above 0 is never held as 0.                                    *)
(* Python's None, for the Optional[float] / Optional[int] values, is an    *)
(* integer outside every value range (TLC compares only like with like);   *)
(* for a string-valued slot it is the string "None".                       *)
(***************************************************************************)
EXTENDS Integers, Sequences, FiniteSets, TLC

None == -1000000
NoneStr == "None"

(* ------------------------------ bounds -------------------------------- *)
\* longest mainline (in plies) of a game analysed under Spec (one analyze_game call)
MaxPlies == 3
\* longest mainline of a game analysed under SpecServer (request after request)
MaxServerPlies == 1

(* ------------------------- program constants -------------------------- *)
\* score.score(mate_score=10000)
MATE_SCORE == 10000
\* abs(eval) >= 100 (pawns): the mate band
MATE_BAND_PAWNS == 100
\* hundredths of a pawn per pawn (score_value / 100.0, eval * 100)
CP_PER_PAWN == 100
\* classification thresholds, centipawn loss
BEST_BELOW == 20
EXCELLENT_BELOW == 50
GOOD_BELOW == 150
INACCURACY_BELOW == 300
MISTAKE_BELOW == 600
\* 100 percent as a win percentage, in units of 1e-6 percent
WIN_100 == 100000000
\* 100 percent as a move accuracy, in units of 1e-4 percent
ACC_100 == 1000000

MateBand == MATE_BAND_PAWNS * CP_PER_PAWN

(* ------------------- decimal fixed-point arithmetic -------------------- *)
\* The code computes in binary floating point.  Here a real number x >= 0 is a
\* tuple <<x0, x1, x2, x3>> standing for x0 + x1/BASE + x2/BASE^2 + x3/BASE^3
\* (twelve decimals), with 0 <= x1, x2, x3 < BASE; every intermediate integer
\* stays below 2^31.
BASE == 10000

Abs(x) == IF x < 0 THEN -x ELSE x
Min(a, b) == IF a < b THEN a ELSE b
Max(a, b) == IF a > b THEN a ELSE b
\* rounding division of a non-negative numerator
RoundDiv(a, b) == (a + (b \div 2)) \div b

NUM_ZERO == <<0, 0, 0, 0>>
NUM_ONE == <<1, 0, 0, 0>>

\* carries propagated from the last limb to the first
Normalize(l0, l1, l2, l3) ==
    LET t2 == l2 + (l3 \div BASE)
        t1 == l1 + (t2 \div BASE)
    IN  <<l0 + (t1 \div BASE), t1 % BASE, t2 % BASE, l3 % BASE>>

NumAdd(x, y) == Normalize(x[1] + y[1], x[2] + y[2], x[3] + y[3], x[4] + y[4])

NumLess(x, y) ==
    \/ x[1] < y[1]
    \/ x[1] = y[1] /\ x[2] < y[2]
    \/ x[1] = y[1] /\ x[2] = y[2] /\ x[3] < y[3]
    \/ x[1] = y[1] /\ x[2] = y[2] /\ x[3] = y[3] /\ x[4] < y[4]

\* x - y for x >= y
NumSub(x, y) ==
    LET l3 == x[4] - y[4]
        l2 == x[3] - y[3] - (IF l3 < 0 THEN 1 ELSE 0)
        l1 == x[2] - y[2] - (IF l2 < 0 THEN 1 ELSE 0)
    IN  <<x[1] - y[1] - (IF l1 < 0 THEN 1 ELSE 0), l1 % BASE, l2 % BASE, l3 % BASE>>

\* x * y, rounded at the twelfth decimal
NumMul(x, y) ==
    LET t5 == x[3] * y[4] + x[4] * y[3]
        t4 == x[2] * y[4] + x[3] * y[3] + x[4] * y[2] + (t5 \div BASE)
        t3 == x[1] * y[4] + x[2] * y[3] + x[3] * y[2] + x[4] * y[1] + RoundDiv(t4, BASE)
        t2 == x[1] * y[3] + x[2] * y[2] + x[3] * y[1]
        t1 == x[1] * y[2] + x[2] * y[1]
    IN  Normalize(x[1] * y[1], t1, t2, t3)

\* k * x for an integer 0 <= k <= BASE
NumScale(x, k) == Normalize(x[1] * k, x[2] * k, x[3] * k, x[4] * k)

\* one Newton step towards 1/d: q * (2 - d * q)
RecipStep(d, q) ==
    LET dq == NumMul(d, q)
    IN  IF NumLess(NUM_ONE, dq) THEN NumSub(q, NumMul(q, NumSub(dq, NUM_ONE)))
        ELSE NumAdd(q, NumMul(q, NumSub(NUM_ONE, dq)))

RECURSIVE RecipIter(_, _, _)
RecipIter(d, q, steps) ==
    IF steps = 0 THEN q ELSE RecipIter(d, RecipStep(d, q), steps - 1)

\* 1 / d for d >= 1: Newton's iteration from the quotient of the leading limbs
Recip(d, steps) ==
    RecipIter(d, Normalize(0, (BASE * BASE) \div (d[1] * BASE + d[2]), 0, 0), steps)

\* a / b for integers 0 < a <= b, twelve decimals, by long division
Ratio(a, b) ==
    IF a = b THEN NUM_ONE
    ELSE LET d1 == (a * 1000) \div b
             r1 == (a * 1000) % b
             d2 == (r1 * 1000) \div b
             r2 == (r1 * 1000) % b
             d3 == (r2 * 1000) \div b
             r3 == (r2 * 1000) % b
             d4 == (r3 * 1000) \div b
         IN  <<0, d1 * 10 + (d2 \div 100), (d2 % 100) * 100 + (d3 \div 10),
               (d3 % 10) * 1000 + d4>>

(* ------------------------------ math.exp ------------------------------- *)
\* e^(-k) for k = 0 .. 28 (e^(-29) is below the twelfth decimal)
EXP_INT ==
    <<<<1, 0, 0, 0>>, <<0, 3678, 7944, 1171>>, <<0, 1353, 3528, 3237>>, <<0, 497, 8706, 8368>>,
      <<0, 183, 1563, 8889>>, <<0, 67, 3794, 6999>>, <<0, 24, 7875, 2177>>, <<0, 9, 1188, 1966>>,
      <<0, 3, 3546, 2628>>, <<0, 1, 2340, 9804>>, <<0, 0, 4539, 9930>>, <<0, 0, 1670, 1701>>,
      <<0, 0, 614, 4212>>, <<0, 0, 226, 329>>, <<0, 0, 83, 1529>>, <<0, 0, 30, 5902>>,
      <<0, 0, 11, 2535>>, <<0, 0, 4, 1399>>, <<0, 0, 1, 5230>>, <<0, 0, 0, 5603>>,
      <<0, 0, 0, 2061>>, <<0, 0, 0, 758>>, <<0, 0, 0, 279>>, <<0, 0, 0, 103>>,
      <<0, 0, 0, 38>>, <<0, 0, 0, 14>>, <<0, 0, 0, 5>>, <<0, 0, 0, 2>>,
      <<0, 0, 0, 1>>>>

\* e^(-k/100) for k = 0 .. 99
EXP_HUNDREDTHS ==
    <<<<1, 0, 0, 0>>, <<0, 9900, 4983, 3749>>, <<0, 9801, 9867, 3307>>, <<0, 9704, 4553, 3549>>,
      <<0, 9607, 8943, 9152>>, <<0, 9512, 2942, 4501>>, <<0, 9417, 6453, 3584>>, <<0, 9323, 9381, 9906>>,
      <<0, 9231, 1634, 6387>>, <<0, 9139, 3118, 5271>>, <<0, 9048, 3741, 8036>>, <<0, 8958, 3413, 5297>>,
      <<0, 8869, 2043, 6717>>, <<0, 8780, 9543, 921>>, <<0, 8693, 5823, 5399>>, <<0, 8607, 797, 6425>>,
      <<0, 8521, 4378, 8966>>, <<0, 8436, 6481, 6596>>, <<0, 8352, 7021, 1411>>, <<0, 8269, 5913, 3943>>,
      <<0, 8187, 3075, 3078>>, <<0, 8105, 8424, 5970>>, <<0, 8025, 1879, 7962>>, <<0, 7945, 3360, 2503>>,
      <<0, 7866, 2786, 1067>>, <<0, 7788, 78, 3071>>, <<0, 7710, 5158, 5804>>, <<0, 7633, 7949, 4337>>,
      <<0, 7557, 8374, 1456>>, <<0, 7482, 6356, 7579>>, <<0, 7408, 1822, 682>>, <<0, 7334, 4695, 6224>>,
      <<0, 7261, 4903, 7074>>, <<0, 7189, 2373, 3432>>, <<0, 7117, 7032, 2763>>, <<0, 7046, 8808, 9719>>,
      <<0, 6976, 7632, 6071>>, <<0, 6907, 3433, 637>>, <<0, 6838, 6140, 9212>>, <<0, 6770, 5687, 4498>>,
      <<0, 6703, 2004, 6036>>, <<0, 6636, 5025, 136>>, <<0, 6570, 4681, 9815>>, <<0, 6505, 909, 4723>>,
      <<0, 6440, 3642, 1083>>, <<0, 6376, 2815, 1622>>, <<0, 6312, 8364, 5507>>, <<0, 6250, 226, 8283>>,
      <<0, 6187, 8339, 1806>>, <<0, 6126, 2639, 4184>>, <<0, 6065, 3065, 9713>>, <<0, 6004, 9557, 8812>>,
      <<0, 5945, 2054, 7970>>, <<0, 5886, 496, 9678>>, <<0, 5827, 4825, 2374>>, <<0, 5769, 4981, 380>>,
      <<0, 5712, 906, 3849>>, <<0, 5655, 2543, 8700>>, <<0, 5598, 9836, 6565>>, <<0, 5543, 2728, 4735>>,
      <<0, 5488, 1163, 6094>>, <<0, 5433, 5086, 9074>>, <<0, 5379, 4443, 7595>>, <<0, 5325, 9180, 1007>>,
      <<0, 5272, 9242, 4043>>, <<0, 5220, 4577, 6761>>, <<0, 5168, 5133, 4492>>, <<0, 5117, 857, 7787>>,
      <<0, 5066, 1699, 2366>>, <<0, 5015, 7606, 9066>>, <<0, 4965, 8530, 3791>>, <<0, 4916, 4419, 7461>>,
      <<0, 4867, 5225, 5960>>, <<0, 4819, 899, 90>>, <<0, 4771, 1391, 5521>>, <<0, 4723, 6655, 2741>>,
      <<0, 4676, 6642, 7010>>, <<0, 4630, 1306, 8311>>, <<0, 4584, 601, 1305>>, <<0, 4538, 4479, 5282>>,
      <<0, 4493, 2896, 4117>>, <<0, 4448, 5806, 6223>>, <<0, 4404, 3165, 4506>>, <<0, 4360, 4928, 6322>>,
      <<0, 4317, 1052, 3429>>, <<0, 4274, 1493, 1949>>, <<0, 4231, 6208, 2318>>, <<0, 4189, 5154, 9248>>,
      <<0, 4147, 8291, 1682>>, <<0, 4106, 5575, 2752>>, <<0, 4065, 6965, 9741>>, <<0, 4025, 2422, 4034>>,
      <<0, 3985, 1904, 1085>>, <<0, 3945, 5371, 372>>, <<0, 3906, 2783, 5359>>, <<0, 3867, 4102, 3455>>,
      <<0, 3828, 9288, 5975>>, <<0, 3790, 8303, 8103>>, <<0, 3753, 1109, 8851>>, <<0, 3715, 7669, 1022>>>>

\* e^(-k/10000) for k = 0 .. 99
EXP_TENTHOUSANDTHS ==
    <<<<1, 0, 0, 0>>, <<0, 9999, 0, 5000>>, <<0, 9998, 1, 9999>>, <<0, 9997, 4, 4996>>,
      <<0, 9996, 7, 9989>>, <<0, 9995, 12, 4979>>, <<0, 9994, 17, 9964>>, <<0, 9993, 24, 4943>>,
      <<0, 9992, 31, 9915>>, <<0, 9991, 40, 4879>>, <<0, 9990, 49, 9833>>, <<0, 9989, 60, 4778>>,
      <<0, 9988, 71, 9712>>, <<0, 9987, 84, 4634>>, <<0, 9986, 97, 9543>>, <<0, 9985, 112, 4438>>,
      <<0, 9984, 127, 9318>>, <<0, 9983, 144, 4182>>, <<0, 9982, 161, 9028>>, <<0, 9981, 180, 3857>>,
      <<0, 9980, 199, 8667>>, <<0, 9979, 220, 3457>>, <<0, 9978, 241, 8226>>, <<0, 9977, 264, 2973>>,
      <<0, 9976, 287, 7697>>, <<0, 9975, 312, 2397>>, <<0, 9974, 337, 7073>>, <<0, 9973, 364, 1722>>,
      <<0, 9972, 391, 6344>>, <<0, 9971, 420, 938>>, <<0, 9970, 449, 5503>>, <<0, 9969, 480, 39>>,
      <<0, 9968, 511, 4543>>, <<0, 9967, 543, 9015>>, <<0, 9966, 577, 3455>>, <<0, 9965, 611, 7860>>,
      <<0, 9964, 647, 2231>>, <<0, 9963, 683, 6566>>, <<0, 9962, 721, 863>>, <<0, 9961, 759, 5123>>,
      <<0, 9960, 798, 9344>>, <<0, 9959, 839, 3525>>, <<0, 9958, 880, 7665>>, <<0, 9957, 923, 1763>>,
      <<0, 9956, 966, 5818>>, <<0, 9955, 1010, 9830>>, <<0, 9954, 1056, 3796>>, <<0, 9953, 1102, 7716>>,
      <<0, 9952, 1150, 1590>>, <<0, 9951, 1198, 5416>>, <<0, 9950, 1247, 9193>>, <<0, 9949, 1298, 2920>>,
      <<0, 9948, 1349, 6596>>, <<0, 9947, 1402, 220>>, <<0, 9946, 1455, 3791>>, <<0, 9945, 1509, 7309>>,
      <<0, 9944, 1565, 772>>, <<0, 9943, 1621, 4178>>, <<0, 9942, 1678, 7528>>, <<0, 9941, 1737, 821>>,
      <<0, 9940, 1796, 4054>>, <<0, 9939, 1856, 7227>>, <<0, 9938, 1918, 340>>, <<0, 9937, 1980, 3391>>,
      <<0, 9936, 2043, 6379>>, <<0, 9935, 2107, 9303>>, <<0, 9934, 2173, 2163>>, <<0, 9933, 2239, 4957>>,
      <<0, 9932, 2306, 7684>>, <<0, 9931, 2375, 343>>, <<0, 9930, 2444, 2933>>, <<0, 9929, 2514, 5454>>,
      <<0, 9928, 2585, 7904>>, <<0, 9927, 2658, 282>>, <<0, 9926, 2731, 2587>>, <<0, 9925, 2805, 4819>>,
      <<0, 9924, 2880, 6976>>, <<0, 9923, 2956, 9057>>, <<0, 9922, 3034, 1062>>, <<0, 9921, 3112, 2989>>,
      <<0, 9920, 3191, 4837>>, <<0, 9919, 3271, 6606>>, <<0, 9918, 3352, 8293>>, <<0, 9917, 3434, 9900>>,
      <<0, 9916, 3518, 1423>>, <<0, 9915, 3602, 2863>>, <<0, 9914, 3687, 4218>>, <<0, 9913, 3773, 5488>>,
      <<0, 9912, 3860, 6671>>, <<0, 9911, 3948, 7766>>, <<0, 9910, 4037, 8773>>, <<0, 9909, 4127, 9690>>,
      <<0, 9908, 4219, 517>>, <<0, 9907, 4311, 1252>>, <<0, 9906, 4404, 1894>>, <<0, 9905, 4498, 2443>>,
      <<0, 9904, 4593, 2897>>, <<0, 9903, 4689, 3256>>, <<0, 9902, 4786, 3518>>, <<0, 9901, 4884, 3683>>>>

\* math.exp(-x) for x >= 0: the product of e^(-x0), e^(-h/100), e^(-t/10000),
\* where x1 = 100 h + t, and of 1 - r + r^2/2 for the rest r < 1e-4 of x
ExpNeg(x) ==
    IF x[1] >= Len(EXP_INT) THEN NUM_ZERO
    ELSE LET r == <<0, 0, x[3], x[4]>>
             series == NumAdd(NumSub(NUM_ONE, r),
                              <<0, 0, 0, RoundDiv(x[3] * x[3], 2 * BASE)>>)
         IN  NumMul(NumMul(NumMul(EXP_INT[x[1] + 1],
                                  EXP_HUNDREDTHS[(x[2] \div 100) + 1]),
                           EXP_TENTHOUSANDTHS[(x[2] % 100) + 1]),
                    series)

\* math.exp(y) for 0 <= y < 1e-5: 1 + y + y^2/2
ExpSmall(y) ==
    NumAdd(NumAdd(NUM_ONE, y), <<0, 0, 0, RoundDiv(y[3] * y[3], 2 * BASE)>>)

(* -------------------- centipawn_to_win_percent ------------------------ *)
\* 50 + 50 * (2 / (1 + exp(-0.00368208 * cp)) - 1)  =  100 / (1 + exp(-k cp));
\* for cp < 0 it is 100 - 100 / (1 + exp(-k |cp|)).  cp is an integer number of
\* centipawns; 0.00368208 is (36 * BASE + 8208) / BASE^3.  The result is in
\* units of 1e-6 percent, the nearest one to the real value.
centipawn_to_win_percent(cp) ==
    LET a == Abs(cp)
        x == Normalize(36 * (a \div BASE), 36 * (a % BASE) + 8208 * (a \div BASE),
                       8208 * (a % BASE), 0)
        q == Recip(NumAdd(NUM_ONE, ExpNeg(x)), 2)
        w == q[1] * WIN_100 + q[2] * BASE + q[3] + (IF q[4] >= BASE \div 2 THEN 1 ELSE 0)
    IN  IF cp >= 0 THEN w ELSE WIN_100 - w

(* --------------------- calculate_move_accuracy ------------------------ *)
\* 103.1668 and 3.1669
ACCURACY_FACTOR == <<103, 1668, 0, 0>>
ACCURACY_OFFSET == <<3, 1669, 0, 0>>

\* a percentage x >= 0 in units of 1e-4 percent: the nearest one, except that a
\* value above 0 is never turned into 0 (the code tests "a > 0")
AccuracyUnits(x) ==
    LET u == x[1] * BASE + x[2] + (IF x[3] >= BASE \div 2 THEN 1 ELSE 0)
    IN  IF u = 0 /\ x # NUM_ZERO THEN 1 ELSE u

\* 103.1668 * exp(-0.04354 * win_loss) - 3.1669, clamped to [0, 100].  The win
\* percentages are in units of 1e-6 percent, so 0.04354 * win_loss is
\* 43540 * |win_loss| / BASE^3; the result is in units of 1e-4 percent.  For
\* win_loss < 0 the exponential is above 1: from 0.04354 * |win_loss| = 1e-5 on
\* the raw value is above 100.0009 and the clamp returns 100.
calculate_move_accuracy(win_percent_before, win_percent_after) ==
    LET win_loss == win_percent_before - win_percent_after
        a == Abs(win_loss)
        y == Normalize(0, 0, 43540 * (a \div BASE), 43540 * (a % BASE))
        scaled == IF win_loss >= 0 THEN NumMul(ACCURACY_FACTOR, ExpNeg(y))
                  ELSE NumMul(ACCURACY_FACTOR, ExpSmall(y))
    IN  IF win_loss < 0 /\ (y[1] > 0 \/ y[2] > 0 \/ y[3] >= 1000) THEN ACC_100
        ELSE IF ~NumLess(ACCURACY_OFFSET, scaled) THEN 0
        ELSE Max(0, Min(ACC_100, AccuracyUnits(NumSub(scaled, ACCURACY_OFFSET))))

(* --------------------- calculate_game_accuracy ------------------------ *)
RECURSIVE SumSeq(_)
SumSeq(s) == IF s = <<>> THEN 0 ELSE Head(s) + SumSeq(Tail(s))

RECURSIVE MinSeq(_)
MinSeq(s) == IF Len(s) = 1 THEN s[1] ELSE Min(Head(s), MinSeq(Tail(s)))

RECURSIVE SumRatio(_, _)
\* sum of m / a over the list, m being its least element
SumRatio(m, s) ==
    IF s = <<>> THEN NUM_ZERO ELSE NumAdd(Ratio(m, Head(s)), SumRatio(m, Tail(s)))

IsValidAccuracy(a) == a # None /\ a > 0

\* sum(v) / len(v), in units of 1e-4 percent, with four more decimals
ArithmeticMean(v) ==
    <<SumSeq(v) \div Len(v), ((SumSeq(v) % Len(v)) * BASE) \div Len(v), 0, 0>>

\* len(v) / sum(1/a for a in v), in units of 1e-4 percent: with m the least
\* element it is m * len(v) / sum(m/a), and m = h * BASE + l
HarmonicMean(v) ==
    LET m == MinSeq(v)
        g == NumScale(Recip(SumRatio(m, v), 5), Len(v))
    IN  NumAdd(NumScale(<<g[1] * BASE + g[2], g[3], g[4], 0>>, m \div BASE),
               NumScale(g, m % BASE))

\* (x + y) / 2 for x, y in units of 1e-4 percent, as the nearest 1e-2 percent
HalfSum(x, y) ==
    LET whole == x[1] + y[1]
        frac == x[2] + y[2]
    IN  (whole \div 200) + (IF (whole % 200) * BASE + frac >= 100 * BASE THEN 1 ELSE 0)

\* variant: the arithmetic mean alone
calculate_game_accuracy_arithmetic(accuracies) ==
    IF accuracies = <<>> THEN 0
    ELSE LET valid_accuracies == SelectSeq(accuracies, IsValidAccuracy)
         IN  IF valid_accuracies = <<>> THEN 0
             ELSE HalfSum(ArithmeticMean(valid_accuracies), ArithmeticMean(valid_accuracies))

\* the per-move accuracies are in units of 1e-4 percent, the result is in units
\* of 1e-2 percent
calculate_game_accuracy(accuracies) ==
    IF accuracies = <<>> THEN 0
    ELSE LET valid_accuracies == SelectSeq(accuracies, IsValidAccuracy)
         IN  IF valid_accuracies = <<>> THEN 0
             ELSE LET arithmetic_mean == ArithmeticMean(valid_accuracies)
                      harmonic_mean == HarmonicMean(valid_accuracies)
                  IN  HalfSum(arithmetic_mean, harmonic_mean)

(* --------------------------- classify_move ---------------------------- *)
\* variant: every upper bound inclusive
classify_table_inclusive(centipawn_loss) ==
    IF centipawn_loss <= BEST_BELOW THEN "Best"
    ELSE IF centipawn_loss <= EXCELLENT_BELOW THEN "Excellent"
    ELSE IF centipawn_loss <= GOOD_BELOW THEN "Good"
    ELSE IF centipawn_loss <= INACCURACY_BELOW THEN "Inaccuracy"
    ELSE IF centipawn_loss <= MISTAKE_BELOW THEN "Mistake"
    ELSE "Blunder"

classify_table(centipawn_loss) ==
    IF centipawn_loss < BEST_BELOW THEN "Best"
    ELSE IF centipawn_loss < EXCELLENT_BELOW THEN "Excellent"
    ELSE IF centipawn_loss < GOOD_BELOW THEN "Good"
    ELSE IF centipawn_loss < INACCURACY_BELOW THEN "Inaccuracy"
    ELSE IF centipawn_loss < MISTAKE_BELOW THEN "Mistake"
    ELSE "Blunder"

\* variant: no mate special-case before the table
classify_move_table_only(eval_before, eval_after, is_white_move) ==
    IF eval_before = None \/ eval_after = None THEN "Unknown"
    ELSE LET before == IF is_white_move THEN eval_before ELSE -eval_before
             after == IF is_white_move THEN eval_after ELSE -eval_after
         IN  classify_table(before - after)

\* evaluations in hundredths of a pawn: -delta * 100 is before - after, an
\* integer, which round(., 1) leaves unchanged
classify_move(eval_before, eval_after, is_white_move) ==
    IF eval_before = None \/ eval_after = None THEN "Unknown"
    ELSE IF Abs(eval_before) >= MateBand \/ Abs(eval_after) >= MateBand
         THEN IF Abs(eval_after) >= MateBand THEN "Best"
              ELSE IF Abs(eval_before) >= MateBand THEN "Blunder"
              ELSE "Unknown"
    ELSE LET before == IF is_white_move THEN eval_before ELSE -eval_before
             after == IF is_white_move THEN eval_after ELSE -eval_after
             delta == after - before
             centipawn_loss == -delta
         IN  classify_table(centipawn_loss)

(* ------------------------ to_white_perspective ------------------------ *)
\* variant: the side-to-move value kept as it is
to_white_perspective_raw(eval_relative, is_white_turn) == eval_relative

to_white_perspective(eval_relative, is_white_turn) ==
    IF eval_relative = None THEN None
    ELSE IF is_white_turn THEN eval_relative ELSE -eval_relative


(* ------------- the evaluator's scores (chess.engine.Score) ------------- *)
Cp(x) == [kind |-> "cp", v |-> x]
Mate(n) == [kind |-> "mate", v |-> n]
\* a score object whose score() has no value: the case main.py guards with
\* "if score_value is not None else None"
NoScore == [kind |-> "none", v |-> 0]

\* Score.is_mate()
score_is_mate(s) == s.kind = "mate"
\* Score.mate()
score_mate(s) == IF s.kind = "mate" THEN s.v ELSE None
\* Score.score(mate_score=m): Cp(x) -> x; Mate(n) -> m - n for n > 0, -m - n otherwise
score_score(s, m) ==
    IF s.kind = "cp" THEN s.v
    ELSE IF s.kind = "mate" THEN (IF s.v > 0 THEN m - s.v ELSE -m - s.v)
    ELSE None

\* the scores a query may return at a position that is not checkmate
EngineScores == {NoScore, Cp(-30), Cp(60), Mate(2)}

\* moves, and the principal variations a query may return
PlayedMove == "m1"
OtherMove == "m2"
EnginePVs == {<<>>, <<PlayedMove>>, <<OtherMove>>}

(* ------------------------------ the games ----------------------------- *)
\* chess.pgn.read_game: a game is its mainline length, the side to move in the
\* initial position (a FEN header may give black) and whether the last move of
\* the mainline delivers checkmate
NoGame == [n |-> -1, white_first |-> TRUE, mate_end |-> FALSE]
Games(maxPlies) ==
    {g \in [n : 0..maxPlies, white_first : BOOLEAN, mate_end : BOOLEAN] :
        g.mate_end => g.n >= 1}

\* board.turn after p plies (TRUE is white)
board_turn(g, p) == ((p % 2) = 0) = g.white_first

\* the game's mainline
mainline_moves(g) == [i \in 1..g.n |-> PlayedMove]

\* what engine.analyse can report at the position after p plies: a checkmated
\* side to move is "mate 0" with no line to play
AnalyseResults(g, p) ==
    IF g.mate_end /\ p = g.n
    THEN {[score |-> Mate(0), pv |-> <<>>]}
    ELSE [score : EngineScores, pv : EnginePVs]

(* ---------------------------- the environment -------------------------- *)
possible_paths == <<"/usr/games/stockfish", "/usr/bin/stockfish",
                    "/usr/local/bin/stockfish", "/opt/homebrew/bin/stockfish",
                    "stockfish">>
Paths == {possible_paths[i] : i \in 1..Len(possible_paths)}

\* an environment: the paths that exist (os.path.exists) and the paths
\* popen_uci can start
NoEnv == [exists |-> {}, startable |-> {}]
ServerEnvs == [exists : {{}, {"/usr/games/stockfish"}, {"/usr/bin/stockfish", "/usr/local/bin/stockfish"}},
               startable : {{}, {"/usr/games/stockfish"}, {"/usr/local/bin/stockfish", "stockfish"}, {"stockfish"}}]
AnalysisEnvs == {[exists |-> {}, startable |-> {}],
                 [exists |-> {"/usr/games/stockfish"}, startable |-> {"/usr/games/stockfish"}]}

VARIABLES
    stockfish_path,   \* the module global
    other_pc,         \* a concurrent request's position in get_stockfish_engine
    engine_path,      \* the path this request's session was started on
    env,              \* the environment met by the current request's acquisition
    endpoint,         \* "analyze_game" | "analyze_pgn_endpoint"
    pc,               \* position of the request in its handler
    game,             \* the parsed game
    ply,              \* moves pushed on board
    eval_before, is_mate_before, mate_in_before,
    move_number,
    moves_analysis,
    engine,           \* "none" | "live" | "quit"
    pending,          \* the value or exception on its way out through finally
    result,           \* what the request ended with
    n_acquired,       \* sessions opened by this request
    n_quit,           \* engine.quit() calls of this request
    n_queries,        \* engine.analyse calls of this request
    n_stray,          \* engine.analyse calls made with no live session
    q_before,         \* the query (1-based) whose score eval_before holds
    bindings,         \* per record: the queries its eval_before / eval_after came from
    missing,          \* positions whose score query returned no score
    cm_args, cm_label \* classify_move applied to drawn arguments (SpecClassify)

\* fetch_chess_com_games (SpecFetch)
VARIABLES
    f_pc,             \* position in fetch_chess_com_games
    url,              \* 0: none yet, 1: the current month's URL, 2: the previous month's
    url_has_403,      \* whether the text of the URLs (the username in them) contains "403"
    attempt,          \* _get_with_retries: the loop variable
    backoff,          \* _get_with_retries: seconds to wait before the next attempt
    requests_log,     \* every requests.get made, and the time.sleep that followed it
    response,         \* what _get_with_retries returned
    raised,           \* the exception on its way out of _get_with_retries
    fetched           \* what fetch_chess_com_games ended with

fetchvars == <<f_pc, url, url_has_403, attempt, backoff, requests_log, response, raised,
               fetched>>

vars == <<stockfish_path, other_pc, engine_path, env, endpoint, pc, game, ply, eval_before, is_mate_before,
          mate_in_before, move_number, moves_analysis, engine, pending, result,
          n_acquired, n_quit, n_queries, n_stray, q_before, bindings, missing,
          cm_args, cm_label, f_pc, url, url_has_403, attempt, backoff, requests_log,
          response, raised, fetched>>

\* the variables of the analysis endpoints and of classify_move
analysisvars == <<stockfish_path, other_pc, engine_path, env, endpoint, pc, game, ply, eval_before,
                  is_mate_before, mate_in_before, move_number, moves_analysis, engine,
                  pending, result, n_acquired, n_quit, n_queries, n_stray, q_before,
                  bindings, missing, cm_args, cm_label>>

NoResult == [kind |-> "none"]
NoArgs == [eval_before |-> None, eval_after |-> None, is_white_move |-> TRUE]

\* the state of a request that has not started
RequestInit ==
    /\ env = NoEnv
    /\ endpoint = NoneStr
    /\ pc = "idle"
    /\ game = NoGame
    /\ ply = 0
    /\ eval_before = None /\ is_mate_before = FALSE /\ mate_in_before = None
    /\ move_number = 1
    /\ moves_analysis = <<>>
    /\ engine = "none"
    /\ engine_path = NoneStr
    /\ pending = NoResult
    /\ result = NoResult
    /\ n_acquired = 0 /\ n_quit = 0 /\ n_queries = 0 /\ n_stray = 0
    /\ q_before = 0
    /\ bindings = <<>>
    /\ missing = {}

\* JSON values under the "games" key: a list, null, a string
JList(items) == [type |-> "list", items |-> items]
JNull == [type |-> "null", items |-> <<>>]
JStr(chars) == [type |-> "str", items |-> chars]

\* chess.com's answer to one requests.get: a response with a status code and a
\* body, or no response at all (requests.get raises).  A body is text that is
\* not JSON ("invalid"), or a JSON object, array or null; an object has or has
\* not a "games" key
NoData == [json |-> "invalid", has_games |-> FALSE, games |-> JNull]
Response(status_code, data) ==
    [kind |-> "response", status_code |-> status_code, data |-> data]
\* requests.get raising a RequestException (connection error, timeout)
NetworkFailure == [kind |-> "exception", status_code |-> 0, data |-> NoData]
\* Python's None where a response is expected
NoResponse == [kind |-> NoneStr, status_code |-> 0, data |-> NoData]
NoException == [type |-> NoneStr, status_code |-> 0]
NoGames == [kind |-> "none"]

\* fetch_chess_com_games not yet called
FetchInit ==
    /\ f_pc = "idle"
    /\ url = 0
    /\ attempt = 0
    /\ backoff = 0
    /\ requests_log = <<>>
    /\ response = NoResponse
    /\ raised = NoException
    /\ fetched = NoGames

Init ==
    /\ stockfish_path = NoneStr /\ other_pc = "out"
    /\ RequestInit
    /\ cm_args = NoArgs /\ cm_label = NoneStr
    /\ FetchInit /\ url_has_403 = FALSE

(* ------------------------- get_stockfish_engine ------------------------ *)
\* With no cached path: the first of possible_paths that exists (or is the bare
\* name "stockfish") and that popen_uci starts is cached and returned; when none
\* starts, HTTPException(500).  With a cached path: popen_uci on it, whose own
\* exception propagates.
get_stockfish_engine(path, e) ==
    IF path = NoneStr
    THEN LET started == {i \in 1..Len(possible_paths) :
                            /\ (possible_paths[i] \in e.exists \/ possible_paths[i] = "stockfish")
                            /\ possible_paths[i] \in e.startable}
         IN  IF started = {}
             THEN [raised |-> "HTTPException500", path |-> NoneStr]
             ELSE [raised |-> NoneStr,
                   path |-> possible_paths[CHOOSE i \in started : \A j \in started : i <= j]]
    ELSE IF path \in e.startable
         THEN [raised |-> NoneStr, path |-> path]
         ELSE [raised |-> "OSError", path |-> path]

(* --------------------------- reading a score --------------------------- *)
\* is_mate / mate_in / eval of one query, as stored: white's perspective
read_score(score, turn) ==
    LET is_mate == score_is_mate(score)
        mate_in == IF is_mate THEN score_mate(score) ELSE None
        score_value == score_score(score, MATE_SCORE)
        eval_relative == IF score_value # None THEN score_value ELSE None
    IN  [is_mate |-> is_mate,
         mate_in |-> IF mate_in # None THEN (IF turn THEN mate_in ELSE -mate_in) ELSE None,
         eval |-> to_white_perspective(eval_relative, turn)]

(* --------------------------- accuracy metrics -------------------------- *)
\* variant: a missing eval_before is taken as 0.0
accuracy_metrics_before_defaulted(ev_before, ev_after, is_white_move) ==
    IF ev_after # None
    THEN LET b == IF ev_before = None THEN 0 ELSE ev_before
             win_percent_before == IF is_white_move THEN centipawn_to_win_percent(b)
                                   ELSE WIN_100 - centipawn_to_win_percent(b)
             win_percent_after == IF is_white_move THEN centipawn_to_win_percent(ev_after)
                                  ELSE WIN_100 - centipawn_to_win_percent(ev_after)
         IN  [win_percent_before |-> win_percent_before,
              win_percent_after |-> win_percent_after,
              accuracy |-> calculate_move_accuracy(win_percent_before, win_percent_after)]
    ELSE [win_percent_before |-> None, win_percent_after |-> None, accuracy |-> None]

accuracy_metrics(ev_before, ev_after, is_white_move) ==
    IF ev_before # None /\ ev_after # None
    THEN LET win_percent_before_white == centipawn_to_win_percent(ev_before)
             win_percent_after_white == centipawn_to_win_percent(ev_after)
             win_percent_before == IF is_white_move THEN win_percent_before_white
                                   ELSE WIN_100 - win_percent_before_white
             win_percent_after == IF is_white_move THEN win_percent_after_white
                                  ELSE WIN_100 - win_percent_after_white
         IN  [win_percent_before |-> win_percent_before,
              win_percent_after |-> win_percent_after,
              accuracy |-> calculate_move_accuracy(win_percent_before, win_percent_after)]
    ELSE [win_percent_before |-> None, win_percent_after |-> None, accuracy |-> None]

\* best_move_data: "if classification != 'Best' and best_move_info"
best_move_data(classification, best_move_info) ==
    IF classification # "Best" /\ best_move_info # NoneStr THEN best_move_info ELSE NoneStr

\* best_move_info: the first move of the principal variation, when there is one
best_move_info(pv) == IF pv # <<>> THEN pv[1] ELSE NoneStr

(* ------------------------------ aggregation ---------------------------- *)
\* "White plays on even indices (0, 2, 4, ...), Black plays on odd indices"
white_moves(ms) == [k \in 1..((Len(ms) + 1) \div 2) |-> ms[2 * k - 1]]
black_moves(ms) == [k \in 1..(Len(ms) \div 2) |-> ms[2 * k]]
accuracies_of(ms) ==
    SelectSeq([i \in 1..Len(ms) |-> ms[i].accuracy], LAMBDA a : a # None)
\* variant: calculate_game_accuracy called without the "if white_accuracies" guard
side_accuracy_unguarded(ms) == calculate_game_accuracy(accuracies_of(ms))

side_accuracy(ms) ==
    IF accuracies_of(ms) # <<>> THEN calculate_game_accuracy(accuracies_of(ms)) ELSE None

ExceptionResult(type) == [kind |-> "exception", type |-> type]

(* -------------------------------- actions ------------------------------ *)
\* io.StringIO + chess.pgn.read_game; "if not game: raise HTTPException(400)"
ParsePGN(endpoints, maxPlies) ==
    /\ pc = "idle"
    /\ \E ep \in endpoints :
         /\ endpoint' = ep
         /\ \/ /\ result' = ExceptionResult("HTTPException400")
               /\ pc' = "done"
               /\ UNCHANGED game
            \/ /\ \E g \in Games(maxPlies) : game' = g
               /\ pc' = "acquire"
               /\ UNCHANGED result
    /\ UNCHANGED <<stockfish_path, other_pc, env, ply, eval_before, is_mate_before, mate_in_before,
                   move_number, moves_analysis, engine, pending, n_acquired, engine_path, n_quit,
                   n_queries, n_stray, q_before, bindings, missing, cm_args, cm_label, fetchvars>>

\* engine = get_stockfish_engine(), before the try block.  The handlers are
\* plain "def" endpoints, run in a thread pool: between the test of the global
\* (line 77) and what follows it another request may run.
\* "if stockfish_path is None"
AcquireRead ==
    /\ pc = "acquire"
    /\ pc' = IF stockfish_path = NoneStr THEN "probe" ELSE "open"
    /\ UNCHANGED <<stockfish_path, other_pc, env, endpoint, game, ply, eval_before,
                   is_mate_before, mate_in_before, move_number, moves_analysis, engine,
                   pending, result, n_acquired, engine_path, n_quit, n_queries, n_stray,
                   q_before, bindings, missing, cm_args, cm_label, fetchvars>>

\* the loop over possible_paths: the first path that starts is written to the
\* global, whatever the global holds by now, and its engine is returned
AcquireProbe(envs) ==
    /\ pc = "probe"
    /\ \E e \in envs :
         LET r == get_stockfish_engine(NoneStr, e)
         IN  /\ env' = e
             /\ IF r.raised = NoneStr
                THEN /\ stockfish_path' = r.path
                     /\ engine' = "live"
                     /\ engine_path' = r.path
                     /\ n_acquired' = n_acquired + 1
                     /\ pc' = "seed"
                     /\ UNCHANGED result
                ELSE /\ result' = ExceptionResult(r.raised)
                     /\ pc' = "done"
                     /\ UNCHANGED <<stockfish_path, engine, engine_path, n_acquired>>
    /\ UNCHANGED <<other_pc, endpoint, game, ply, eval_before, is_mate_before,
                   mate_in_before, move_number, moves_analysis, pending, n_quit,
                   n_queries, n_stray, q_before, bindings, missing, cm_args, cm_label,
                   fetchvars>>

\* "return chess.engine.SimpleEngine.popen_uci(stockfish_path)", on the value
\* the global holds at that moment
AcquireOpen(envs) ==
    /\ pc = "open"
    /\ \E e \in envs :
         LET r == get_stockfish_engine(stockfish_path, e)
         IN  /\ env' = e
             /\ IF r.raised = NoneStr
                THEN /\ engine' = "live"
                     /\ engine_path' = r.path
                     /\ n_acquired' = n_acquired + 1
                     /\ pc' = "seed"
                     /\ UNCHANGED result
                ELSE /\ result' = ExceptionResult(r.raised)
                     /\ pc' = "done"
                     /\ UNCHANGED <<engine, engine_path, n_acquired>>
    /\ UNCHANGED <<stockfish_path, other_pc, endpoint, game, ply, eval_before,
                   is_mate_before, mate_in_before, move_number, moves_analysis, pending,
                   n_quit, n_queries, n_stray, q_before, bindings, missing, cm_args,
                   cm_label, fetchvars>>

\* a second request in the same process, as far as it touches the global: its
\* own call of get_stockfish_engine
OtherRead ==
    /\ other_pc = "out"
    /\ other_pc' = IF stockfish_path = NoneStr THEN "probe" ELSE "open"
    /\ UNCHANGED <<stockfish_path, env, endpoint, pc, game, ply, eval_before,
                   is_mate_before, mate_in_before, move_number, moves_analysis, engine,
                   pending, result, n_acquired, engine_path, n_quit, n_queries, n_stray,
                   q_before, bindings, missing, cm_args, cm_label, fetchvars>>

OtherProbe(envs) ==
    /\ other_pc = "probe"
    /\ \E e \in envs :
         LET r == get_stockfish_engine(NoneStr, e)
         IN  stockfish_path' = IF r.raised = NoneStr THEN r.path ELSE stockfish_path
    /\ other_pc' = "out"
    /\ UNCHANGED <<env, endpoint, pc, game, ply, eval_before, is_mate_before,
                   mate_in_before, move_number, moves_analysis, engine, pending, result,
                   n_acquired, engine_path, n_quit, n_queries, n_stray, q_before,
                   bindings, missing, cm_args, cm_label, fetchvars>>

OtherOpen ==
    /\ other_pc = "open"
    /\ other_pc' = "out"
    /\ UNCHANGED <<stockfish_path, env, endpoint, pc, game, ply, eval_before,
                   is_mate_before, mate_in_before, move_number, moves_analysis, engine,
                   pending, result, n_acquired, engine_path, n_quit, n_queries, n_stray,
                   q_before, bindings, missing, cm_args, cm_label, fetchvars>>

Stray(k) == IF engine = "live" THEN 0 ELSE k

\* "Analyze starting position": the seed query and the conversion of its score
SeedQuery ==
    /\ pc = "seed"
    /\ n_queries' = n_queries + 1
    /\ n_stray' = n_stray + Stray(1)
    /\ \/ /\ pending' = ExceptionResult("Exception")
          /\ pc' = "finally"
          /\ UNCHANGED <<eval_before, is_mate_before, mate_in_before, q_before, missing>>
       \/ \E info \in AnalyseResults(game, ply) :
            LET s == read_score(info.score, board_turn(game, ply))
            IN  /\ eval_before' = s.eval
                /\ is_mate_before' = s.is_mate
                /\ mate_in_before' = s.mate_in
                /\ q_before' = n_queries + 1
                /\ missing' = IF s.eval = None THEN missing \cup {ply} ELSE missing
                /\ pc' = "loop"
                /\ UNCHANGED pending
    /\ UNCHANGED <<stockfish_path, other_pc, env, endpoint, game, ply, move_number, moves_analysis,
                   engine, result, n_acquired, engine_path, n_quit, bindings, cm_args, cm_label, fetchvars>>

\* the record analyze_game appends
MoveAnalysisRecord(san_move, s, classification, best, acc, fen) ==
    [move_number |-> move_number,
     move |-> san_move,
     eval_before |-> eval_before,
     eval_after |-> s.eval,
     classification |-> classification,
     fen |-> fen,
     best_move |-> best,
     win_percent_before |-> acc.win_percent_before,
     win_percent_after |-> acc.win_percent_after,
     accuracy |-> acc.accuracy,
     is_mate_before |-> is_mate_before,
     is_mate_after |-> s.is_mate,
     mate_in_before |-> mate_in_before,
     mate_in_after |-> s.mate_in]

\* the record analyze_pgn_endpoint appends
MoveAnalysisSimpleRecord(san_move, s, label, best, is_white_move) ==
    [move |-> san_move,
     eval |-> s.eval,
     delta |-> IF eval_before # None /\ s.eval # None
               THEN (IF is_white_move THEN s.eval ELSE -s.eval)
                    - (IF is_white_move THEN eval_before ELSE -eval_before)
               ELSE None,
     label |-> label,
     best_move |-> best,
     is_mate |-> s.is_mate,
     mate_in |-> s.mate_in]

\* variant: the before-values are never updated
carry_forward_stale(before, after) == before

\* "Update for next iteration": the next ply's before-values are this ply's
\* after-values (q is the query the evaluation came from)
carry_forward(before, after) == after

\* variant: the counter advances after every ply
next_move_number_every_ply(number, is_white_move) == number + 1

\* "if not is_white_move: move_number += 1"
next_move_number(number, is_white_move) ==
    IF ~is_white_move THEN number + 1 ELSE number

\* one pass of "for move in game.mainline_moves()"
LoopIteration ==
    /\ pc = "loop"
    /\ ply < game.n
    /\ \/ \* the pre-move query raises
          /\ n_queries' = n_queries + 1
          /\ n_stray' = n_stray + Stray(1)
          /\ pending' = ExceptionResult("Exception")
          /\ pc' = "finally"
          /\ UNCHANGED <<ply, eval_before, is_mate_before, mate_in_before, move_number,
                         moves_analysis, q_before, bindings, missing>>
       \/ \* the move is pushed and the post-move query raises
          /\ n_queries' = n_queries + 2
          /\ n_stray' = n_stray + Stray(2)
          /\ ply' = ply + 1
          /\ pending' = ExceptionResult("Exception")
          /\ pc' = "finally"
          /\ UNCHANGED <<eval_before, is_mate_before, mate_in_before, move_number,
                         moves_analysis, q_before, bindings, missing>>
       \/ \E pv \in {r.pv : r \in AnalyseResults(game, ply)},
             post \in AnalyseResults(game, ply + 1) :
            LET best_info == best_move_info(pv)
                is_white_move == board_turn(game, ply)
                san_move == mainline_moves(game)[ply + 1]
                s == read_score(post.score, board_turn(game, ply + 1))
                classification == classify_move(eval_before, s.eval, is_white_move)
                acc == accuracy_metrics(eval_before, s.eval, is_white_move)
                best == best_move_data(classification, best_info)
                nxt == carry_forward(
                           [eval |-> eval_before, is_mate |-> is_mate_before,
                            mate_in |-> mate_in_before, q |-> q_before],
                           [eval |-> s.eval, is_mate |-> s.is_mate,
                            mate_in |-> s.mate_in, q |-> n_queries + 2])
            IN  /\ n_queries' = n_queries + 2
                /\ n_stray' = n_stray + Stray(2)
                /\ ply' = ply + 1
                /\ moves_analysis' = Append(moves_analysis,
                       IF endpoint = "analyze_game"
                       THEN MoveAnalysisRecord(san_move, s, classification, best, acc, ply + 1)
                       ELSE MoveAnalysisSimpleRecord(san_move, s, classification, best,
                                                     is_white_move))
                /\ bindings' = Append(bindings, [before |-> q_before, after |-> n_queries + 2])
                /\ missing' = IF s.eval = None THEN missing \cup {ply + 1} ELSE missing
                /\ eval_before' = nxt.eval
                /\ is_mate_before' = nxt.is_mate
                /\ mate_in_before' = nxt.mate_in
                /\ q_before' = nxt.q
                /\ move_number' = IF endpoint = "analyze_game"
                                  THEN next_move_number(move_number, is_white_move)
                                  ELSE move_number
                /\ UNCHANGED <<pending, pc>>
    /\ UNCHANGED <<stockfish_path, other_pc, env, endpoint, game, engine, result, n_acquired, engine_path,
                   n_quit, cm_args, cm_label, fetchvars>>

\* after the loop: the per-side accuracies and the returned value
Aggregate ==
    /\ pc = "loop"
    /\ ply = game.n
    /\ pending' = IF endpoint = "analyze_game"
                  THEN [kind |-> "report",
                        moves |-> moves_analysis,
                        white_accuracy |-> side_accuracy(white_moves(moves_analysis)),
                        black_accuracy |-> side_accuracy(black_moves(moves_analysis))]
                  ELSE [kind |-> "moves", moves |-> moves_analysis]
    /\ pc' = "finally"
    /\ UNCHANGED <<stockfish_path, other_pc, env, endpoint, game, ply, eval_before, is_mate_before,
                   mate_in_before, move_number, moves_analysis, engine, result,
                   n_acquired, engine_path, n_quit, n_queries, n_stray, q_before, bindings, missing,
                   cm_args, cm_label, fetchvars>>

\* variant: engine.quit() on the normal return only
FinallyNoQuitOnError ==
    /\ pc = "finally"
    /\ IF pending.kind = "exception"
       THEN UNCHANGED <<engine, n_quit>>
       ELSE engine' = "quit" /\ n_quit' = n_quit + 1
    /\ result' = pending
    /\ pc' = "done"
    /\ UNCHANGED <<stockfish_path, other_pc, env, endpoint, game, ply, eval_before, is_mate_before,
                   mate_in_before, move_number, moves_analysis, pending, n_acquired, engine_path,
                   n_queries, n_stray, q_before, bindings, missing, cm_args, cm_label, fetchvars>>

\* "finally: engine.quit()", then the return or the re-raise
Finally ==
    /\ pc = "finally"
    /\ engine' = "quit"
    /\ n_quit' = n_quit + 1
    /\ result' = pending
    /\ pc' = "done"
    /\ UNCHANGED <<stockfish_path, other_pc, env, endpoint, game, ply, eval_before, is_mate_before,
                   mate_in_before, move_number, moves_analysis, pending, n_acquired, engine_path,
                   n_queries, n_stray, q_before, bindings, missing, cm_args, cm_label, fetchvars>>

\* the server takes the next request: the module global is all that is kept
NextRequest ==
    /\ pc = "done"
    /\ env' = NoEnv
    /\ endpoint' = NoneStr
    /\ pc' = "idle"
    /\ game' = NoGame
    /\ ply' = 0
    /\ eval_before' = None /\ is_mate_before' = FALSE /\ mate_in_before' = None
    /\ move_number' = 1
    /\ moves_analysis' = <<>>
    /\ engine' = "none"
    /\ engine_path' = NoneStr
    /\ pending' = NoResult
    /\ result' = NoResult
    /\ n_acquired' = 0 /\ n_quit' = 0 /\ n_queries' = 0 /\ n_stray' = 0
    /\ q_before' = 0
    /\ bindings' = <<>>
    /\ missing' = {}
    /\ UNCHANGED <<stockfish_path, other_pc, cm_args, cm_label, fetchvars>>

Next ==
    \/ ParsePGN({"analyze_game"}, MaxPlies)
    \/ AcquireRead
    \/ AcquireProbe(AnalysisEnvs)
    \/ SeedQuery
    \/ LoopIteration
    \/ Aggregate
    \/ Finally

Spec == Init /\ [][Next]_vars

\* one process serving request after request
NextServer ==
    \/ ParsePGN({"analyze_game", "analyze_pgn_endpoint"}, MaxServerPlies)
    \/ AcquireRead
    \/ AcquireProbe(ServerEnvs)
    \/ AcquireOpen(ServerEnvs)
    \/ OtherRead
    \/ OtherProbe(ServerEnvs)
    \/ OtherOpen
    \/ SeedQuery
    \/ LoopIteration
    \/ Aggregate
    \/ Finally
    \/ NextRequest

SpecServer == Init /\ [][NextServer]_vars

(* ------------------- classify_move on drawn arguments ------------------ *)
\* evaluations around every threshold of the table and around the mate band
ClassifyEvals ==
    {None, 0, 19, 20, 49, 50, 149, 150, 299, 300, 599, 600, 9999, 10000,
     -19, -20, -49, -50, -149, -150, -299, -300, -599, -600, -9999, -10000}

InitClassify ==
    /\ stockfish_path = NoneStr /\ other_pc = "out"
    /\ RequestInit
    /\ cm_args \in [eval_before : ClassifyEvals, eval_after : ClassifyEvals,
                    is_white_move : BOOLEAN]
    /\ cm_label = NoneStr
    /\ FetchInit /\ url_has_403 = FALSE

ClassifyCall ==
    /\ cm_label = NoneStr
    /\ cm_label' = classify_move(cm_args.eval_before, cm_args.eval_after, cm_args.is_white_move)
    /\ UNCHANGED <<stockfish_path, other_pc, env, endpoint, pc, game, ply, eval_before, is_mate_before,
                   mate_in_before, move_number, moves_analysis, engine, pending, result,
                   n_acquired, engine_path, n_quit, n_queries, n_stray, q_before, bindings, missing,
                   cm_args, fetchvars>>

SpecClassify == InitClassify /\ [][ClassifyCall]_vars

(* ------------------------- fetch_chess_com_games ------------------------ *)
\* retries = 3
RETRIES == 3
\* backoff = 1.0 (seconds)
BACKOFF_START == 1
\* backoff *= 2
BACKOFF_FACTOR == 2

\* the bodies of a successful answer: {"games": [g]}, {"games": []}, {} ...
DataGames == [json |-> "object", has_games |-> TRUE, games |-> JList(<<"game">>)]
DataEmpty == [json |-> "object", has_games |-> TRUE, games |-> JList(<<>>)]
DataNoKey == [json |-> "object", has_games |-> FALSE, games |-> JNull]
\* ... {"games": null}, {"games": "abc"}, [], null, and text that is not JSON
DataGamesNull == [json |-> "object", has_games |-> TRUE, games |-> JNull]
DataGamesStr == [json |-> "object", has_games |-> TRUE, games |-> JStr(<<"a", "b", "c">>)]
DataArray == [json |-> "array", has_games |-> FALSE, games |-> JNull]
DataNull == [json |-> "null", has_games |-> FALSE, games |-> JNull]
DataNotJSON == [json |-> "invalid", has_games |-> FALSE, games |-> JNull]

\* what one requests.get can meet
ApiOutcomes ==
    {Response(200, DataGames), Response(200, DataEmpty), Response(200, DataNoKey),
     Response(200, DataGamesNull), Response(200, DataGamesStr), Response(200, DataArray),
     Response(200, DataNull), Response(200, DataNotJSON),
     Response(403, NoData), Response(429, NoData), Response(404, NoData),
     Response(500, NoData), NetworkFailure}

HTTPError(status_code) == [type |-> "HTTPError", status_code |-> status_code]
ConnectionError == [type |-> "ConnectionError", status_code |-> 0]
\* requests.exceptions.JSONDecodeError, a RequestException that is no HTTPError
JSONDecodeError == [type |-> "JSONDecodeError", status_code |-> 0]

\* Response.raise_for_status: HTTPError for a 4xx or 5xx status
raises_for_status(status_code) == status_code >= 400 /\ status_code < 600

\* "except requests.exceptions.RequestException": re-raise on the last attempt,
\* otherwise sleep and go on
on_request_exception(e, att) ==
    IF att = RETRIES THEN [act |-> "raise", exc |-> e] ELSE [act |-> "retry", exc |-> e]

\* the body of the loop of _get_with_retries for one outcome of requests.get:
\* return the response, raise, or sleep and retry
get_attempt(o, att) ==
    IF o.kind = "exception" THEN on_request_exception(ConnectionError, att)
    ELSE IF o.status_code = 403 THEN on_request_exception(HTTPError(403), att)
    ELSE IF o.status_code = 429
         THEN IF att < RETRIES THEN [act |-> "retry", exc |-> NoException]
              ELSE on_request_exception(HTTPError(429), att)
    ELSE IF raises_for_status(o.status_code)
         THEN on_request_exception(HTTPError(o.status_code), att)
    ELSE [act |-> "return", exc |-> NoException]

\* '"403" in msg': the message of an HTTPError is its status followed by
\* "... for url: <url>"
msg_has_403(e) == e.status_code = 403 \/ url_has_403

\* response.json(): JSONDecodeError for a body that is not JSON
json_raises(data) == data.json = "invalid"

\* data.get("games", []): AttributeError when data is a list or None (they have
\* no get); the value under the key, whatever it is; [] without the key
data_get_games(data) ==
    IF data.json # "object" THEN [raised |-> "AttributeError", value |-> JNull]
    ELSE IF data.has_games THEN [raised |-> NoneStr, value |-> data.games]
    ELSE [raised |-> NoneStr, value |-> JList(<<>>)]

\* 'if "games" not in data or len(data["games"]) == 0': TypeError for
\* '"games" not in None' and for len(None); a JSON array does not contain "games"
no_games_in(data) ==
    IF data.json = "null" THEN [raised |-> "TypeError", value |-> FALSE]
    ELSE IF data.json = "array" \/ ~data.has_games THEN [raised |-> NoneStr, value |-> TRUE]
    ELSE IF data.games.type = "null" THEN [raised |-> "TypeError", value |-> FALSE]
    ELSE [raised |-> NoneStr, value |-> Len(data.games.items) = 0]

\* response = _get_with_retries(url), for the current month
FetchStart ==
    /\ f_pc = "idle"
    /\ url' = 1
    /\ attempt' = 1
    /\ backoff' = BACKOFF_START
    /\ f_pc' = "get"
    /\ UNCHANGED <<url_has_403, requests_log, response, raised, fetched, analysisvars>>

\* one pass of "for attempt in range(1, retries + 1)"
GetWithRetriesPass ==
    /\ f_pc = "get"
    /\ \E o \in ApiOutcomes :
         LET st == get_attempt(o, attempt)
         IN  /\ requests_log' = Append(requests_log,
                    [url |-> url, attempt |-> attempt, outcome |-> o,
                     slept |-> IF st.act = "retry" THEN backoff ELSE 0])
             /\ IF st.act = "return"
                THEN /\ response' = o
                     /\ f_pc' = "response"
                     /\ UNCHANGED <<attempt, backoff, raised>>
                ELSE IF st.act = "raise"
                THEN /\ raised' = st.exc
                     /\ f_pc' = "except"
                     /\ UNCHANGED <<attempt, backoff, response>>
                ELSE \* time.sleep(backoff); backoff *= 2; the next attempt, or the
                     \* end of the range and the function's implicit "return None"
                     /\ backoff' = backoff * BACKOFF_FACTOR
                     /\ IF attempt < RETRIES
                        THEN /\ attempt' = attempt + 1
                             /\ UNCHANGED <<f_pc, response>>
                        ELSE /\ response' = NoResponse
                             /\ f_pc' = "response"
                             /\ UNCHANGED attempt
                     /\ UNCHANGED raised
    /\ UNCHANGED <<url, url_has_403, fetched, analysisvars>>

\* data = response.json(); the previous month when the current one has no games;
\* return data.get("games", [])
\* An exception that is no RequestException is caught by neither except clause
\* and leaves fetch_chess_com_games as it is.
FetchResponse ==
    /\ f_pc = "response"
    /\ IF response = NoResponse
       THEN \* None.json(): AttributeError
            /\ fetched' = ExceptionResult("AttributeError")
            /\ f_pc' = "done"
            /\ UNCHANGED <<url, attempt, backoff, raised>>
       ELSE IF json_raises(response.data)
       THEN /\ raised' = JSONDecodeError
            /\ f_pc' = "except"
            /\ UNCHANGED <<url, attempt, backoff, fetched>>
       ELSE IF url = 1 /\ no_games_in(response.data).raised # NoneStr
       THEN /\ fetched' = ExceptionResult(no_games_in(response.data).raised)
            /\ f_pc' = "done"
            /\ UNCHANGED <<url, attempt, backoff, raised>>
       ELSE IF url = 1 /\ no_games_in(response.data).value
       THEN /\ url' = 2
            /\ attempt' = 1
            /\ backoff' = BACKOFF_START
            /\ f_pc' = "get"
            /\ UNCHANGED <<fetched, raised>>
       ELSE /\ fetched' = IF data_get_games(response.data).raised # NoneStr
                          THEN ExceptionResult(data_get_games(response.data).raised)
                          ELSE [kind |-> "return",
                                value |-> data_get_games(response.data).value]
            /\ f_pc' = "done"
            /\ UNCHANGED <<url, attempt, backoff, raised>>
    /\ UNCHANGED <<url_has_403, requests_log, response, analysisvars>>

\* "except requests.exceptions.HTTPError" / "except requests.exceptions.RequestException"
FetchExcept ==
    /\ f_pc = "except"
    /\ fetched' = IF raised.type = "HTTPError"
                  THEN IF msg_has_403(raised) THEN ExceptionResult("HTTPException403")
                       ELSE ExceptionResult("HTTPException400")
                  ELSE ExceptionResult("HTTPException400")
    /\ f_pc' = "done"
    /\ UNCHANGED <<url, url_has_403, attempt, backoff, requests_log, response, raised,
                   analysisvars>>

\* fetch_chess_com_games(username), for a username with or without "403" in it
InitFetch ==
    /\ stockfish_path = NoneStr /\ other_pc = "out"
    /\ RequestInit
    /\ cm_args = NoArgs /\ cm_label = NoneStr
    /\ FetchInit /\ url_has_403 \in BOOLEAN

NextFetch ==
    \/ FetchStart
    \/ GetWithRetriesPass
    \/ FetchResponse
    \/ FetchExcept

SpecFetch == InitFetch /\ [][NextFetch]_vars

(* ======================================================================= *)
(*                               the claims                                *)
(* ======================================================================= *)
Reported == result.kind = "report"

\* C1. Carry-forward: in every record after the first, eval_before,
\* is_mate_before and mate_in_before are the previous record's after-values and
\* come from the very query that produced them (no query of their own); only the
\* first record's eval_before comes from its own query, the seed query, which is
\* the first query of the analysis.
C1_CarryForward ==
    /\ Len(bindings) = Len(moves_analysis)
    /\ \A i \in 1..Len(moves_analysis) :
         IF i = 1
         THEN /\ bindings[1].before = 1
              /\ \A j \in 1..Len(bindings) : bindings[j].after # 1
         ELSE /\ moves_analysis[i].eval_before = moves_analysis[i - 1].eval_after
              /\ moves_analysis[i].is_mate_before = moves_analysis[i - 1].is_mate_after
              /\ moves_analysis[i].mate_in_before = moves_analysis[i - 1].mate_in_after
              /\ bindings[i].before = bindings[i - 1].after

\* a finished three-ply analysis in which every ply changed the evaluation
C1_Witness ==
    /\ Reported
    /\ Len(result.moves) = 3
    /\ \A i \in 1..3 : /\ result.moves[i].eval_before # None
                       /\ result.moves[i].eval_after # None
                       /\ result.moves[i].eval_after # result.moves[i].eval_before

\* C2. Guaranteed release: a request opens at most one session; every query is
\* made on a live session (none before the acquisition, none after the release);
\* quit is never called without a session; and a request that has ended, by a
\* return or by an exception, has called quit exactly once if it opened a session.
C2_SessionReleased ==
    /\ n_acquired <= 1
    /\ n_quit <= n_acquired
    /\ n_stray = 0
    /\ (n_acquired = 0) => (n_queries = 0 /\ engine = "none")
    /\ (pc = "done") => (n_quit = n_acquired /\ engine # "live")

\* analyze_pgn_endpoint left by an exception of the post-move query, session released
C2_Witness ==
    /\ pc = "done"
    /\ endpoint = "analyze_pgn_endpoint"
    /\ result = ExceptionResult("Exception")
    /\ n_queries = 3
    /\ n_acquired = 1 /\ n_quit = 1 /\ engine = "quit"

ClassifyApplied == cm_label # NoneStr
BothPresent == cm_args.eval_before # None /\ cm_args.eval_after # None
MoverLoss ==
    LET b == IF cm_args.is_white_move THEN cm_args.eval_before ELSE -cm_args.eval_before
        a == IF cm_args.is_white_move THEN cm_args.eval_after ELSE -cm_args.eval_after
    IN  -(a - b)

\* C3. Centipawn table: with both evaluations present and both below 100 pawns
\* in magnitude, the label is fixed by the mover's centipawn loss: < 20 Best,
\* [20, 50) Excellent, [50, 150) Good, [150, 300) Inaccuracy, [300, 600) Mistake,
\* >= 600 Blunder, for both mover sides.
C3_CentipawnTable ==
    (ClassifyApplied /\ BothPresent
       /\ Abs(cm_args.eval_before) < 10000 /\ Abs(cm_args.eval_after) < 10000)
    => \/ MoverLoss < 20 /\ cm_label = "Best"
       \/ 20 <= MoverLoss /\ MoverLoss < 50 /\ cm_label = "Excellent"
       \/ 50 <= MoverLoss /\ MoverLoss < 150 /\ cm_label = "Good"
       \/ 150 <= MoverLoss /\ MoverLoss < 300 /\ cm_label = "Inaccuracy"
       \/ 300 <= MoverLoss /\ MoverLoss < 600 /\ cm_label = "Mistake"
       \/ 600 <= MoverLoss /\ cm_label = "Blunder"

\* black loses exactly 300 centipawns, the inclusive lower bound of Mistake
C3_Witness ==
    /\ ClassifyApplied
    /\ ~cm_args.is_white_move
    /\ cm_args.eval_before = -150 /\ cm_args.eval_after = 150
    /\ cm_label = "Mistake"

\* C4. Mate precedence: with both evaluations present and at least one of
\* magnitude >= 100 pawns, the label is Best when |eval_after| >= 100 pawns,
\* Blunder when |eval_before| >= 100 pawns and |eval_after| < 100 pawns, and
\* never Excellent, Good, Inaccuracy or Mistake, whatever the delta and the side.
C4_MatePrecedence ==
    (ClassifyApplied /\ BothPresent
       /\ (Abs(cm_args.eval_before) >= 10000 \/ Abs(cm_args.eval_after) >= 10000))
    => /\ Abs(cm_args.eval_after) >= 10000 => cm_label = "Best"
       /\ (Abs(cm_args.eval_before) >= 10000 /\ Abs(cm_args.eval_after) < 10000)
            => cm_label = "Blunder"
       /\ cm_label \in {"Best", "Blunder", "Unknown"}

\* white moves from "being mated" (-100) to 0: a gain by the table, Blunder by the
\* mate special-case
C4_Witness ==
    /\ ClassifyApplied
    /\ cm_args.is_white_move
    /\ cm_args.eval_before = -10000 /\ cm_args.eval_after = 0
    /\ cm_label = "Blunder"

\* C5. Mate scores saturate into the mate band: every record with is_mate_after
\* has |eval_after| >= 100 pawns and every record with is_mate_before has
\* |eval_before| >= 100 pawns.
C5_MateInBand ==
    \A i \in 1..Len(moves_analysis) :
        /\ moves_analysis[i].is_mate_after => Abs(moves_analysis[i].eval_after) >= 10000
        /\ moves_analysis[i].is_mate_before => Abs(moves_analysis[i].eval_before) >= 10000

Degraded(r) ==
    /\ r.classification = "Unknown"
    /\ r.win_percent_before = None /\ r.win_percent_after = None /\ r.accuracy = None
Intact(r) ==
    /\ r.classification # "Unknown"
    /\ r.win_percent_before # None /\ r.win_percent_after # None /\ r.accuracy # None
TheMissing == CHOOSE p \in missing : TRUE

\* C6 as stated: when exactly one score query returned no score, the report is
\* complete, the move that query belongs to (ply 0 for the seed query, the move
\* just played for a post-move query) is Unknown with win percentages and
\* accuracy None, and every other move is not Unknown and has them all.
C6_OnlyThatMove ==
    (Reported /\ Cardinality(missing) = 1)
    => /\ Len(result.moves) = game.n
       /\ \A i \in 1..Len(result.moves) :
            IF i = (IF TheMissing = 0 THEN 1 ELSE TheMissing)
            THEN Degraded(result.moves[i])
            ELSE Intact(result.moves[i])

\* C6 amended: when exactly one score query returned no score, the report is
\* complete and the degraded records are exactly those that use that score as
\* eval_before or eval_after: the move played into that position and the move
\* played from it (the following ply); every other record is not Unknown and has
\* win percentages and accuracy.
C6_MovesUsingTheScore ==
    (Reported /\ Cardinality(missing) = 1)
    => /\ Len(result.moves) = game.n
       /\ \A i \in 1..Len(result.moves) :
            IF TheMissing \in {i - 1, i}
            THEN Degraded(result.moves[i])
            ELSE Intact(result.moves[i])

\* the post-move query of ply 0 gave no score: plies 0 and 1 degraded, ply 2 intact
C6_Witness ==
    /\ Reported
    /\ missing = {1}
    /\ Len(result.moves) = 3
    /\ Degraded(result.moves[1]) /\ Degraded(result.moves[2]) /\ Intact(result.moves[3])

\* C7. best_move presence: a record carries a best_move only if the played move
\* differs from the first move of the pre-move principal variation and the
\* classification is not Best.
C7_BestMovePresence ==
    \A i \in 1..Len(moves_analysis) :
        moves_analysis[i].best_move # NoneStr
        => /\ moves_analysis[i].best_move # moves_analysis[i].move
           /\ moves_analysis[i].classification # "Best"

\* the accuracies the report draws a side's game accuracy from: the records at
\* even 0-based index for white (parity 1 here), at odd index for black (parity 0)
SideAccuracies(ms, parity) ==
    LET idx == {i \in 1..Len(ms) : i % 2 = parity /\ ms[i].accuracy # None}
        F[k \in 0..Len(ms)] ==
            IF k = 0 THEN <<>>
            ELSE IF k \in idx THEN Append(F[k - 1], ms[k].accuracy) ELSE F[k - 1]
    IN  F[Len(ms)]
PositiveOnly(accs) == SelectSeq(accs, LAMBDA a : a > 0)
\* (arithmetic mean + harmonic mean) / 2, as the nearest 1e-2 percent
MeanOfMeans(v) == HalfSum(ArithmeticMean(v), HarmonicMean(v))

\* C8 as stated: a side's game accuracy is None whenever the side has no valid
\* (present and strictly positive) per-move accuracy, and otherwise the average
\* of the arithmetic and the harmonic mean of the valid ones.
C8_AbsentWithoutValid ==
    Reported =>
      \A parity \in {0, 1} :
        LET acc == IF parity = 1 THEN result.white_accuracy ELSE result.black_accuracy
            valid == PositiveOnly(SideAccuracies(result.moves, parity))
        IN  IF valid = <<>> THEN acc = None ELSE acc = MeanOfMeans(valid)

\* C8 amended: a side's game accuracy is None exactly when the side has no
\* per-move accuracy at all (every one missing, or no move); it is 0 when it has
\* some but none strictly positive; otherwise it is the average of the
\* arithmetic and the harmonic mean of the strictly positive ones.
C8_AbsentWithoutAny ==
    Reported =>
      \A parity \in {0, 1} :
        LET acc == IF parity = 1 THEN result.white_accuracy ELSE result.black_accuracy
            present == SideAccuracies(result.moves, parity)
            valid == PositiveOnly(present)
        IN  IF present = <<>> THEN acc = None
            ELSE IF valid = <<>> THEN acc = 0
            ELSE acc = MeanOfMeans(valid)

\* white: accuracies 0 and a positive one, so the mean is over one value; black:
\* its only accuracy is 0
C8_Witness ==
    /\ Reported
    /\ Len(result.moves) = 3
    /\ result.moves[1].accuracy = 0
    /\ result.moves[3].accuracy > 0 /\ result.moves[3].accuracy < ACC_100
    /\ result.moves[2].accuracy = 0
    /\ result.white_accuracy > 0
    /\ result.black_accuracy = 0

AcquisitionTried ==
    /\ pc \notin {"idle", "acquire", "probe", "open"}
    /\ result # ExceptionResult("HTTPException400")

\* C9. Typed acquisition failure: whenever get_stockfish_engine is called while
\* no evaluator process can be started, the request ends with HTTPException 500
\* and no session, with or without a cached path; and a session is only ever
\* returned for a path that started.
C9_TypedFailure ==
    /\ (AcquisitionTried /\ env.startable = {})
         => (result = ExceptionResult("HTTPException500") /\ n_acquired = 0)
    /\ (n_acquired = 1) => (engine_path \in env.startable)

\* C10. A game whose last move delivers checkmate, every query having returned a
\* score: the report has one record per ply, in game order, and the last record
\* has eval_after >= +100 pawns when white mated, <= -100 pawns when black mated,
\* and classification Best.
C10_CheckmateEnding ==
    (Reported /\ game.mate_end /\ missing = {})
    => /\ Len(result.moves) = game.n
       /\ \A i \in 1..game.n : /\ result.moves[i].fen = i
                               /\ result.moves[i].move = mainline_moves(game)[i]
       /\ LET last == result.moves[game.n]
          IN  /\ IF board_turn(game, game.n - 1)
                 THEN last.eval_after >= 10000
                 ELSE last.eval_after <= -10000
              /\ last.classification = "Best"
              /\ last.is_mate_after /\ last.mate_in_after = 0

\* three plies, black delivering the mate
C10_Witness ==
    /\ Reported
    /\ game.mate_end /\ game.n = 3 /\ ~game.white_first
    /\ missing = {}
    /\ result.moves[3].eval_after = -10000
    /\ result.moves[3].classification = "Best"

\* the report of an analysis that recorded no move
EmptyReport ==
    [kind |-> "report", moves |-> <<>>, white_accuracy |-> None, black_accuracy |-> None]

\* C11. Game with no moves: the analysis of a game of zero plies makes no query
\* but the seed query and records no move; it ends with an empty move list and
\* white_accuracy and black_accuracy both None, the session opened once and
\* released exactly once; the only exceptions it can end with are the
\* evaluator's own (no process could be started, or the seed query raised), and
\* after a seed query that raised the session is released exactly once as well.
C11_NoMoves ==
    (endpoint = "analyze_game" /\ game.n = 0)
    => /\ n_queries <= 1
       /\ moves_analysis = <<>>
       /\ (pc = "done")
            => \/ /\ result = EmptyReport
                  /\ n_queries = 1 /\ n_acquired = 1 /\ n_quit = 1 /\ engine = "quit"
               \/ /\ result = ExceptionResult("HTTPException500")
                  /\ n_queries = 0 /\ n_acquired = 0 /\ n_quit = 0
               \/ /\ result = ExceptionResult("Exception")
                  /\ n_queries = 1 /\ n_acquired = 1 /\ n_quit = 1 /\ engine = "quit"

\* a game of zero plies with black to move in its initial position, analysed to
\* the end: one query, the empty report, the session released
C11_Witness ==
    /\ pc = "done"
    /\ endpoint = "analyze_game"
    /\ game.n = 0 /\ ~game.white_first
    /\ result = EmptyReport
    /\ n_queries = 1 /\ n_acquired = 1 /\ n_quit = 1

\* the records of the moves one side made: record i (1-based) was made by the
\* side to move after i - 1 plies
MoverRecords(ms, g, white) ==
    LET F[k \in 0..Len(ms)] ==
            IF k = 0 THEN <<>>
            ELSE IF board_turn(g, k - 1) = white THEN Append(F[k - 1], ms[k]) ELSE F[k - 1]
    IN  F[Len(ms)]

\* C12. Partition by mover side: in every report, white_accuracy is the game
\* accuracy of exactly the records whose mover was white and black_accuracy that
\* of exactly the records whose mover was black, whichever side moves first in
\* the initial position.
C12_PartitionByMover ==
    Reported
    => /\ result.white_accuracy = side_accuracy(MoverRecords(result.moves, game, TRUE))
       /\ result.black_accuracy = side_accuracy(MoverRecords(result.moves, game, FALSE))

\* C13. Move numbering: the first record has move_number 1; from one record to
\* the next the number goes up by exactly 1 when the earlier record is a black
\* move and stays the same when it is a white move (so it never decreases, and a
\* white move and black's reply carry the same number); the counter itself is
\* the number the next record will get; and in a game with white to move first
\* the record of ply i (0-based) has move_number floor(i / 2) + 1.
C13_MoveNumbering ==
    (endpoint = "analyze_game")
    => /\ Len(moves_analysis) >= 1 => moves_analysis[1].move_number = 1
       /\ \A i \in 1..Len(moves_analysis) :
            LET after == IF i < Len(moves_analysis)
                         THEN moves_analysis[i + 1].move_number ELSE move_number
            IN  /\ after = moves_analysis[i].move_number
                             + (IF board_turn(game, i - 1) THEN 0 ELSE 1)
                /\ game.white_first
                     => moves_analysis[i].move_number = ((i - 1) \div 2) + 1
                /\ (i < Len(moves_analysis) /\ board_turn(game, i - 1))
                     => moves_analysis[i + 1].move_number = moves_analysis[i].move_number

\* three plies with black to move first: black's move is number 1, then white's
\* move and black's reply both carry number 2
C13_Witness ==
    /\ Reported
    /\ ~game.white_first
    /\ Len(result.moves) = 3
    /\ result.moves[1].move_number = 1
    /\ result.moves[2].move_number = 2
    /\ result.moves[3].move_number = 2
    /\ move_number = 3

RequestsFor(u) == {i \in 1..Len(requests_log) : requests_log[i].url = u}
\* the failure a request ended with, as the exception _get_with_retries sees
FailureOf(o) ==
    IF o.kind = "exception" THEN ConnectionError ELSE HTTPError(o.status_code)
\* 1, 2, 4, ...: the wait after attempt k
BackoffAfter(k) == IF k = 1 THEN 1 ELSE IF k = 2 THEN 2 ELSE 4

\* The part of C14 about _get_with_retries: at most 3 requests for one URL,
\* numbered 1, 2, 3; between two consecutive attempts on a URL it has slept 1
\* second after the first and 2 after the second, and it does not sleep after an
\* attempt that ends the call; it ends by returning a response whose status is
\* not an error (never None) or by raising the failure of its last request, which
\* is always the third; at most 6 requests in all, the current month's first.
RetryBound ==
    /\ Len(requests_log) <= 6
    /\ \A u \in {1, 2} : Cardinality(RequestsFor(u)) <= 3
    /\ \A i \in 1..Len(requests_log) :
         LET r == requests_log[i]
         IN  /\ r.attempt \in 1..3
             /\ IF i < Len(requests_log)
                THEN LET nxt == requests_log[i + 1]
                     IN  IF nxt.url = r.url
                         THEN /\ nxt.attempt = r.attempt + 1
                              /\ r.slept = BackoffAfter(r.attempt)
                         ELSE /\ r.url = 1 /\ nxt.url = 2 /\ nxt.attempt = 1
                              /\ r.slept = 0
                ELSE IF f_pc = "get"
                THEN IF url = r.url
                     THEN attempt = r.attempt + 1 /\ r.slept = BackoffAfter(r.attempt)
                     ELSE attempt = 1 /\ r.slept = 0
                ELSE r.slept = 0
    /\ (f_pc = "response")
         => /\ response # NoResponse
            /\ response = requests_log[Len(requests_log)].outcome
            /\ ~raises_for_status(response.status_code)
    /\ (f_pc = "except" /\ raised.type \in {"HTTPError", "ConnectionError"})
         => /\ requests_log[Len(requests_log)].attempt = 3
            /\ raised = FailureOf(requests_log[Len(requests_log)].outcome)
    /\ (f_pc \in {"get", "response", "except"}) => ENABLED NextFetch

\* C14. Bounded retry of the game fetch: _get_with_retries makes at most 3
\* requests for one URL with waits of 1 and 2 seconds between them and ends by
\* returning a successful response or raising its last failure, never None;
\* fetch_chess_com_games makes at most 6 requests and, whatever the remote API
\* answered, ends by returning a list of game records or by raising
\* HTTPException 403 or 400.
C14_BoundedRetry ==
    /\ RetryBound
    /\ (f_pc = "done")
         => \/ fetched.kind = "return" /\ fetched.value.type = "list"
            \/ fetched \in {ExceptionResult("HTTPException403"),
                            ExceptionResult("HTTPException400")}

=============================================================================
